---- MODULE Spec2Model ----
(***************************************************************************)
(* The LexMap scanner plugins (policy/scanners/python_scanner.py and       *)
(* policy/scanners/php_scanner.py): policy loading, the directory walk,    *)
(* ownership resolution, dependency resolution and edge construction.      *)
(*                                                                         *)
(* A Python str is a sequence of one-character strings, so that replace,   *)
(* startswith, fnmatch and str(Path) are computed character by character.  *)
(* None is the empty sequence <<>> and a present value v is <<v>>.         *)
(* The fact extraction proper (declarations, feature flags, permissions)   *)
(* is left out: those fields never reach the resolution logic.             *)
(***************************************************************************)
EXTENDS Integers, Sequences, FiniteSets, TLC

VARIABLES
    language,      \* "python" (PythonScanner) or "php" (PHPScanner)
    sep,           \* the host's path separator, as str(Path) writes it
    root_dir,      \* self.root_dir, its parts
    policy_arg,    \* the policy_path argument and what the filesystem holds there
    tree,          \* the files below root_dir
    pc,            \* "main", "scanning", "done" (scan returned), "aborted" (an exception left scan)
    policy,        \* self.policy
    stderr,        \* what was written to sys.stderr, one entry per message
    files,         \* self.output["files"]
    module_edges,  \* self.output["module_edges"]
    walked,        \* the paths the rglob generator has yielded so far, in order
    run,           \* how many scanners this process image has been started as
    prev_output,   \* the report of the previous run, once there is one
    call_path,     \* argument of a direct resolve_file_to_module call
    call_results   \* the results of the direct calls made so far

vars == << language, sep, root_dir, policy_arg, tree, pc, policy, stderr, files,
           module_edges, walked, run, prev_output, call_path, call_results >>

-----------------------------------------------------------------------------
(* Bounds of the model *)

MaxFiles == 2      \* files of the adapter's kind in the tree
MaxRuns == 2       \* scans of the same tree that are compared
MaxCalls == 2      \* repeated direct calls of resolve_file_to_module
MaxPathLen == 3    \* length of the path of a direct call

-----------------------------------------------------------------------------
(* Python values *)

None == << >>
Some(v) == << v >>
BS == "\\"

\* Truthiness of an Optional[str]: None and "" are false.
TruthyStr(o) == o # None /\ o[1] # ""

\* str.startswith
StartsWith(s, p) == Len(p) <= Len(s) /\ SubSeq(s, 1, Len(p)) = p

\* str.replace(old, new), old not empty: left to right, non-overlapping.
RECURSIVE Replace(_, _, _)
Replace(s, old, new) ==
    IF Len(s) < Len(old) THEN s
    ELSE IF StartsWith(s, old)
         THEN new \o Replace(SubSeq(s, Len(old) + 1, Len(s)), old, new)
         ELSE << Head(s) >> \o Replace(Tail(s), old, new)

\* x in parts
InParts(x, parts) == \E i \in DOMAIN parts : parts[i] = x

\* str(PurePath): the parts joined by the host's separator.
RECURSIVE Join(_, _)
Join(parts, s) ==
    IF parts = << >> THEN << >>
    ELSE IF Len(parts) = 1 THEN parts[1]
    ELSE parts[1] \o << s >> \o Join(Tail(parts), s)

\* str.lower on the letters the model uses
Lower(c) == CASE c = "A" -> "a" [] c = "B" -> "b" [] c = "K" -> "k" [] c = "M" -> "m" [] OTHER -> c

\* os.path.normcase: the identity on a POSIX host; on a host whose separator
\* is a backslash, lower case and every slash a backslash.
normcase(s, hostsep) ==
    IF hostsep = BS
    THEN [i \in DOMAIN s |-> IF s[i] = "/" THEN BS ELSE Lower(s[i])]
    ELSE s

\* fnmatch.fnmatchcase for patterns of literals, * and ? (no [seq] classes):
\* fnmatch.translate turns * into .* and ? into . under (?s:...)\Z, so both
\* match any character, a path separator included.
RECURSIVE fnmatchcase(_, _)
fnmatchcase(name, pat) ==
    IF pat = << >> THEN name = << >>
    ELSE IF Head(pat) = "*"
         THEN fnmatchcase(name, Tail(pat))
              \/ (name # << >> /\ fnmatchcase(Tail(name), pat))
    ELSE IF Head(pat) = "?"
         THEN name # << >> /\ fnmatchcase(Tail(name), Tail(pat))
    ELSE name # << >> /\ Head(name) = Head(pat) /\ fnmatchcase(Tail(name), Tail(pat))

\* fnmatch.fnmatch: normcase on both, then fnmatchcase.
fnmatch(name, pat, hostsep) == fnmatchcase(normcase(name, hostsep), normcase(pat, hostsep))

-----------------------------------------------------------------------------
(* The policy document, as json.load returns it.  The top-level value is a  *)
(* JSON object; "modules", when present, is an object in insertion order    *)
(* (a sequence of entries) or, malformed, an array; a module's config is an *)
(* object or, malformed, a string.  owns_paths and owns_namespaces are      *)
(* optional lists of strings.                                               *)

Cfg(id, paths, namespaces) ==
    [id |-> id, cfg_t |-> "dict", owns_paths |-> paths, owns_namespaces |-> namespaces]
BadCfg(id) ==
    [id |-> id, cfg_t |-> "str", owns_paths |-> None, owns_namespaces |-> None]
Doc(entries) ==
    [truthy |-> TRUE, has_modules |-> TRUE, modules_t |-> "dict", modules |-> entries]
DocEmpty ==
    [truthy |-> FALSE, has_modules |-> FALSE, modules_t |-> "dict", modules |-> << >>]
DocNoModules ==
    [truthy |-> TRUE, has_modules |-> FALSE, modules_t |-> "dict", modules |-> << >>]
DocModulesList ==
    [truthy |-> TRUE, has_modules |-> TRUE, modules_t |-> "list", modules |-> << >>]

\* bool(self.policy)
TruthyPolicy(pol) == pol # None /\ pol[1].truthy

\* dict.get(key, [])
GetOr(opt, default) == IF opt = None THEN default ELSE opt[1]

\* What a call returns, or that it raised.
Ret(v) == [raised |-> FALSE, val |-> v]
Raised == [raised |-> TRUE, val |-> None]

\* resolve_file_to_module, the inner loop: for pattern in owns_paths
RECURSIVE OwnsPathsLoop(_, _, _, _)
OwnsPathsLoop(owns_paths, j, normalized_path, hostsep) ==
    IF j > Len(owns_paths) THEN FALSE
    ELSE LET normalized_pattern == Replace(owns_paths[j], << BS >>, << "/" >>)
         IN  IF fnmatch(normalized_path, normalized_pattern, hostsep) THEN TRUE
             ELSE OwnsPathsLoop(owns_paths, j + 1, normalized_path, hostsep)

\* resolve_file_to_module, the outer loop: for module_id, module_config in items()
RECURSIVE OwnerLoop(_, _, _, _)
OwnerLoop(modules, i, normalized_path, hostsep) ==
    IF i > Len(modules) THEN Ret(None)
    ELSE IF modules[i].cfg_t # "dict" THEN Raised    \* str has no attribute get
    ELSE IF OwnsPathsLoop(GetOr(modules[i].owns_paths, << >>), 1, normalized_path, hostsep)
         THEN Ret(Some(modules[i].id))
    ELSE OwnerLoop(modules, i + 1, normalized_path, hostsep)

\* Mutant of resolve_file_to_module: the last matching module wins.
RECURSIVE OwnerLoopLast(_, _, _, _, _)
OwnerLoopLast(modules, i, normalized_path, hostsep, found) ==
    IF i > Len(modules) THEN Ret(found)
    ELSE IF modules[i].cfg_t # "dict" THEN Raised
    ELSE OwnerLoopLast(modules, i + 1, normalized_path, hostsep,
            IF OwnsPathsLoop(GetOr(modules[i].owns_paths, << >>), 1, normalized_path, hostsep)
            THEN Some(modules[i].id) ELSE found)

resolve_file_to_module_last(pol, file_path, hostsep) ==
    IF ~TruthyPolicy(pol) \/ ~pol[1].has_modules THEN Ret(None)
    ELSE IF pol[1].modules_t # "dict" THEN Raised
    ELSE OwnerLoopLast(pol[1].modules, 1, Replace(file_path, << BS >>, << "/" >>), hostsep, None)

\* PythonScanner.resolve_file_to_module and PHPScanner.resolve_file_to_module
\* (the two are the same text).
resolve_file_to_module(pol, file_path, hostsep) ==
    IF ~TruthyPolicy(pol) \/ ~pol[1].has_modules THEN Ret(None)
    ELSE LET normalized_path == Replace(file_path, << BS >>, << "/" >>)
         IN  IF pol[1].modules_t # "dict" THEN Raised    \* list has no attribute items
             ELSE OwnerLoop(pol[1].modules, 1, normalized_path, hostsep)

\* resolve_import_to_module, the inner loop: the pattern with every "/**" and
\* then every "/*" removed is the prefix.
RECURSIVE PrefixLoop(_, _, _)
PrefixLoop(owns_paths, j, import_as_path) ==
    IF j > Len(owns_paths) THEN FALSE
    ELSE LET path_prefix == Replace(Replace(owns_paths[j], << "/", "*", "*" >>, << >>),
                                    << "/", "*" >>, << >>)
         IN  IF StartsWith(import_as_path, path_prefix) THEN TRUE
             ELSE PrefixLoop(owns_paths, j + 1, import_as_path)

RECURSIVE ImportLoop(_, _, _)
ImportLoop(modules, i, import_as_path) ==
    IF i > Len(modules) THEN Ret(None)
    ELSE IF modules[i].cfg_t # "dict" THEN Raised
    ELSE IF PrefixLoop(GetOr(modules[i].owns_paths, << >>), 1, import_as_path)
         THEN Ret(Some(modules[i].id))
    ELSE ImportLoop(modules, i + 1, import_as_path)

\* PythonScanner.resolve_import_to_module (current_file is not read)
resolve_import_to_module(pol, import_path) ==
    IF import_path = << >> \/ ~TruthyPolicy(pol) THEN Ret(None)
    ELSE LET import_as_path == Replace(import_path, << "." >>, << "/" >>)
         IN  IF ~pol[1].has_modules THEN Raised          \* KeyError
             ELSE IF pol[1].modules_t # "dict" THEN Raised
             ELSE ImportLoop(pol[1].modules, 1, import_as_path)

\* resolve_namespace_to_module, the inner loop
RECURSIVE NamespaceLoop(_, _, _)
NamespaceLoop(owns_namespaces, j, namespace) ==
    IF j > Len(owns_namespaces) THEN FALSE
    ELSE IF StartsWith(namespace, Replace(owns_namespaces[j], << BS, BS >>, << BS >>)) THEN TRUE
    ELSE NamespaceLoop(owns_namespaces, j + 1, namespace)

RECURSIVE NamespaceModulesLoop(_, _, _)
NamespaceModulesLoop(modules, i, namespace) ==
    IF i > Len(modules) THEN Ret(None)
    ELSE IF modules[i].cfg_t # "dict" THEN Raised
    ELSE IF NamespaceLoop(GetOr(modules[i].owns_namespaces, << >>), 1, namespace)
         THEN Ret(Some(modules[i].id))
    ELSE NamespaceModulesLoop(modules, i + 1, namespace)

\* PHPScanner.resolve_namespace_to_module
resolve_namespace_to_module(pol, namespace) ==
    IF namespace = << >> \/ ~TruthyPolicy(pol) THEN Ret(None)
    ELSE IF ~pol[1].has_modules THEN Raised
    ELSE IF pol[1].modules_t # "dict" THEN Raised
    ELSE NamespaceModulesLoop(pol[1].modules, 1, namespace)

\* The dependency resolver scan_file calls: the adapter's own.
ResolveTarget(lang, pol, target) ==
    IF lang = "python" THEN resolve_import_to_module(pol, target)
    ELSE resolve_namespace_to_module(pol, target)

-----------------------------------------------------------------------------
(* The directory walk: Path.rglob *)

\* The adapter's glob: rglob("*.py") or rglob("*.php")
Glob(lang) == IF lang = "python" THEN << "*", ".", "p", "y" >>
              ELSE << "*", ".", "p", "h", "p" >>

\* The files rglob yields: those whose name matches the glob.
Matching(t, lang) == { f \in t : fnmatchcase(f.parts[Len(f.parts)], Glob(lang)) }

\* The directory of a file, as parts relative to root_dir.
DirOf(parts) == SubSeq(parts, 1, Len(parts) - 1)

\* d is dir or an ancestor of dir
IsPrefix(d, dir) == Len(d) <= Len(dir) /\ SubSeq(dir, 1, Len(d)) = d

\* The directories of which the file is, directly or not, a member.
Ancestors(parts) == { SubSeq(parts, 1, k) : k \in 0..(Len(parts) - 1) }

\* rglob walks depth first: it yields the matching files of a directory,
\* then descends into each subdirectory in turn; the order among the
\* entries of one directory is the order the host's scandir lists them in,
\* which nothing fixes.  parts may be yielded next, after the paths in w,
\* when no file of an enclosing directory is still to come before it and
\* no subtree already left is entered again.
MayYield(parts, w, todo) ==
    /\ parts \in todo
    /\ \A d \in Ancestors(parts) :
          \* files directly in d come before those of d's subdirectories
          /\ d # DirOf(parts) => \A g \in todo : DirOf(g) # d
          \* a subtree, once entered, is walked to its end
          /\ (\E i \in DOMAIN w : IsPrefix(d, DirOf(w[i])))
                => IsPrefix(d, DirOf(w[Len(w)]))
    /\ w # << >> =>
          \A d \in Ancestors(w[Len(w)]) :
             ~IsPrefix(d, DirOf(parts)) => \A g \in todo : ~IsPrefix(d, DirOf(g))

\* PythonScanner.scan: the __pycache__ and venv test on py_file.parts, the
\* parts of the absolute path.  PHPScanner.scan has no such test.
SkippedDir(lang, abs_parts) ==
    /\ lang = "python"
    /\ \/ InParts(<< "_", "_", "p", "y", "c", "a", "c", "h", "e", "_", "_" >>, abs_parts)
       \/ InParts(<< "v", "e", "n", "v" >>, abs_parts)

-----------------------------------------------------------------------------
(* scan_file *)

\* Mutant: an import of the file's own module makes an edge too.
QualifiesAnyTarget(target_module_id, module_id) == TruthyStr(target_module_id)

\* if target_module_id and target_module_id != module_id
Qualifies(target_module_id, module_id) ==
    TruthyStr(target_module_id) /\ target_module_id # module_id

\* self.output["module_edges"].append({...}), within one file
AddEdge(acc, e) == Append(acc, e)

\* for imp in imports: the edges appended, in order, and whether a resolver raised
RECURSIVE EdgeLoop(_, _, _, _, _, _, _)
EdgeLoop(lang, pol, imports, k, module_id, relative_path, acc) ==
    IF k > Len(imports) THEN [raised |-> FALSE, edges |-> acc]
    ELSE LET t == ResolveTarget(lang, pol, imports[k])
         IN  IF t.raised THEN [raised |-> TRUE, edges |-> acc]
             ELSE EdgeLoop(lang, pol, imports, k + 1, module_id, relative_path,
                    IF Qualifies(t.val, module_id)
                    THEN AddEdge(acc, [from_module |-> module_id,
                                       to_module |-> t.val,
                                       from_file |-> relative_path,
                                       import_statement |-> imports[k]])
                    ELSE acc)

\* Mutant: the edges are built whenever a policy is loaded.
OwnerKnownAlways(module_id) == TRUE

\* if module_id (the guard of the cross-module import detection)
OwnerKnown(module_id) == TruthyStr(module_id)

\* file_data["module_scope"] = module_id under if module_id: the key's value,
\* None when the key is not set.
ScopeOf(module_id) == IF TruthyStr(module_id) THEN module_id ELSE None

\* ast.parse in PythonScanner.scan_file: "ok", "skip" (SyntaxError, caught) or
\* "raise" (any other exception ast.parse raises, RecursionError or MemoryError
\* on deeply nested source: only SyntaxError is caught).  PHPScanner.scan_file
\* parses nothing: its extraction is by regular expressions and cannot fail.
Parse(lang, f) ==
    IF lang # "python" \/ f.parse = "ok" THEN "ok"
    ELSE IF f.parse = "SyntaxError" THEN "skip"
    ELSE "raise"

Outcome(raised, ret, edges) == [raised |-> raised, ret |-> ret, edges |-> edges]

\* PythonScanner.scan_file and PHPScanner.scan_file: what is returned (None or
\* the file's facts), the edges appended, and whether an exception left it.
scan_file(lang, pol, hostsep, f) ==
    IF f.read # "ok" THEN Outcome(FALSE, None, << >>)
    ELSE LET relative_path == Join(f.parts, hostsep)
             file_data == [path |-> relative_path, imports |-> f.imports,
                           module_scope |-> None]
         IN  IF Parse(lang, f) = "skip" THEN Outcome(FALSE, None, << >>)
             ELSE IF Parse(lang, f) = "raise" THEN Outcome(TRUE, None, << >>)
             ELSE IF ~TruthyPolicy(pol) THEN Outcome(FALSE, Some(file_data), << >>)
             ELSE LET r == resolve_file_to_module(pol, relative_path, hostsep)
                  IN  IF r.raised THEN Outcome(TRUE, None, << >>)
                      ELSE LET scoped == [file_data EXCEPT !.module_scope = ScopeOf(r.val)]
                               e == IF OwnerKnown(r.val)
                                    THEN EdgeLoop(lang, pol, f.imports, 1, r.val,
                                                  relative_path, << >>)
                                    ELSE [raised |-> FALSE, edges |-> << >>]
                           IN  IF e.raised THEN Outcome(TRUE, None, e.edges)
                               ELSE Outcome(FALSE, Some(scoped), e.edges)

-----------------------------------------------------------------------------
(* The inputs the model draws from *)

Languages == { "python", "php" }
Seps == { "/", BS }

\* root_dir, resolved: its parts.
RootDirs == { << << "s", "r", "v" >> >> }

Ext(lang) == IF lang = "python" THEN << ".", "p", "y" >> ELSE << ".", "p", "h", "p" >>

\* Paths below root_dir: x, a/x, a/b/x, b/x and venv/x, with the adapter's
\* extension.
Stems == { << << "x" >> >>,
           << << "a" >>, << "x" >> >>,
           << << "a" >>, << "b" >>, << "x" >> >>,
           << << "b" >>, << "x" >> >>,
           << << "v", "e", "n", "v" >>, << "x" >> >> }

WithExt(stem, lang) == [stem EXCEPT ![Len(stem)] = @ \o Ext(lang)]

\* A file of another kind, which the glob does not match.
OtherFile == [parts |-> << << "n", ".", "t", "x", "t" >> >>, read |-> "ok",
              parse |-> "ok", imports |-> << >>]

\* Import targets, as the extractor reports them ("from"): dotted module
\* paths for Python, namespaces for PHP.
Target(lang, m, n) == IF lang = "python" THEN << Lower(m), ".", Lower(n) >> ELSE << m, BS, n >>
Unowned(lang) == IF lang = "python" THEN << "o", "s" >> ELSE << "O", "s" >>

ImportLists(lang) ==
    { << Target(lang, "B", "M"), Target(lang, "A", "K"),
         Target(lang, "B", "M"), Target(lang, "B", "M") >>,
      << Target(lang, "C", "N"), Unowned(lang), Target(lang, "A", "K"),
         Target(lang, "B", "M") >> }

\* What a file holds: it cannot be read, it cannot be parsed (a syntax error,
\* or source nested too deeply for ast.parse), or it has a list of imports.
Contents(lang) ==
    { [read |-> "fail", parse |-> "ok", imports |-> << >>],
      [read |-> "ok", parse |-> "SyntaxError", imports |-> << >>],
      [read |-> "ok", parse |-> "RecursionError", imports |-> << >>] }
    \cup { [read |-> "ok", parse |-> "ok", imports |-> l] : l \in ImportLists(lang) }

File(stem, lang, c) ==
    [parts |-> WithExt(stem, lang), read |-> c.read, parse |-> c.parse, imports |-> c.imports]

Trees(lang) ==
    UNION { { { File(st, lang, c[st]) : st \in ps } \cup { OtherFile } :
              c \in [ps -> Contents(lang)] } :
            ps \in { q \in SUBSET Stems : Cardinality(q) \in 1..MaxFiles } }

\* Policy documents.
PolicyAB ==
    Doc(<< Cfg("A", Some(<< << "a", "/", "*", "*" >> >>), Some(<< << "A", BS >> >>)),
           Cfg("B", Some(<< << "b", "/", "*", "*" >> >>), Some(<< << "B", BS, BS >> >>)),
           Cfg("C", Some(<< << "c", "/", "*", "*" >> >>), Some(<< << "C", BS >> >>)),
           Cfg("D", None, None) >>)
PolicyOverlap ==
    Doc(<< Cfg("A", Some(<< << "a", "/", "*" >> >>), Some(<< << "A", BS >> >>)),
           Cfg("B", Some(<< << "*", "/", "b", "/", "*" >>, << "b", "/", "*" >> >>),
                    Some(<< << "B", BS >> >>)),
           Cfg("C", Some(<< << "*" >> >>), Some(<< << "C", BS >> >>)) >>)
PolicyOverlapRev ==
    Doc(<< Cfg("B", Some(<< << "*", "/", "b", "/", "*" >>, << "b", "/", "*" >> >>),
                    Some(<< << "B", BS >> >>)),
           Cfg("A", Some(<< << "a", BS, "*" >> >>), Some(<< << "A", BS >> >>)),
           Cfg("C", Some(<< << "c", "/", "*" >> >>), Some(<< << "C", BS >> >>)) >>)
PolicyEmptyId ==
    Doc(<< Cfg("A", Some(<< << "a", "/", "*" >> >>), Some(<< << "A", BS >> >>)),
           Cfg("", Some(<< << "b", "/", "*" >> >>), Some(<< << "B", BS >> >>)),
           Cfg("C", Some(<< << "*" >> >>), Some(<< << "C", BS >> >>)) >>)
PolicyBadCfg ==
    Doc(<< Cfg("A", Some(<< << "a", "/", "*" >> >>), Some(<< << "A", BS >> >>)),
           BadCfg("B") >>)

WellFormedDocs == { PolicyAB, PolicyOverlap, PolicyOverlapRev, PolicyEmptyId }
MalformedDocs == { DocEmpty, DocNoModules, DocModulesList, PolicyBadCfg }

\* sys.argv[2] and the file it names: no argument; a path at which nothing
\* exists; a file that cannot be opened or is not JSON; a JSON document.
NoPolicyArg == [given |-> FALSE, exists |-> FALSE, loads |-> FALSE, doc |-> DocEmpty]
MissingPolicy == [given |-> TRUE, exists |-> FALSE, loads |-> FALSE, doc |-> DocEmpty]
UnloadablePolicy == [given |-> TRUE, exists |-> TRUE, loads |-> FALSE, doc |-> DocEmpty]
PolicyArgs ==
    { NoPolicyArg, MissingPolicy, UnloadablePolicy }
    \cup { [given |-> TRUE, exists |-> TRUE, loads |-> TRUE, doc |-> d] :
           d \in WellFormedDocs \cup MalformedDocs }

-----------------------------------------------------------------------------
(* The scanner *)

Init ==
    /\ language \in Languages
    /\ sep \in Seps
    /\ root_dir \in RootDirs
    /\ policy_arg \in PolicyArgs
    /\ tree \in Trees(language)
    /\ pc = "main"
    /\ policy = None
    /\ stderr = << >>
    /\ files = << >>
    /\ module_edges = << >>
    /\ walked = << >>
    /\ run = 1
    /\ prev_output = None
    /\ call_path = << >>
    /\ call_results = << >>

inputs == << language, sep, root_dir, policy_arg, tree >>

\* json.load(f) under try/except: the document, or None and a warning
LoadPolicy(arg) ==
    IF arg.given /\ arg.exists
    THEN IF arg.loads THEN [policy |-> Some(arg.doc), warnings |-> << >>]
         ELSE [policy |-> None, warnings |-> << "Warning: Failed to load policy file" >>]
    ELSE [policy |-> None, warnings |-> << >>]

\* PythonScanner.__init__ / PHPScanner.__init__, and main's call of scan()
Construct ==
    /\ pc = "main"
    /\ policy' = LoadPolicy(policy_arg).policy
    /\ stderr' = stderr \o LoadPolicy(policy_arg).warnings
    /\ files' = << >>
    /\ module_edges' = << >>
    /\ walked' = << >>
    /\ pc' = "scanning"
    /\ UNCHANGED << inputs, run, prev_output, call_path, call_results >>

\* The files rglob has still to yield.
Todo == { f.parts : f \in Matching(tree, language) } \ { walked[i] : i \in DOMAIN walked }

FileAt(parts) == CHOOSE f \in tree : f.parts = parts

\* Mutant: new edges are put in front of the list.
ExtendEdgesFront(edges, new) == new \o edges

\* The appends of one scan_file call to self.output["module_edges"]
ExtendEdges(edges, new) == edges \o new

\* if file_data: self.output["files"].append(file_data)
ExtendFiles(fs, ret) == IF ret # None THEN Append(fs, ret[1]) ELSE fs

\* One iteration of the for loop of scan()
ScanNext ==
    /\ pc = "scanning"
    /\ \E parts \in Todo :
          /\ MayYield(parts, walked, Todo)
          /\ walked' = Append(walked, parts)
          /\ IF SkippedDir(language, root_dir \o parts)
             THEN UNCHANGED << files, module_edges, pc >>
             ELSE LET o == scan_file(language, policy, sep, FileAt(parts))
                  IN  /\ module_edges' = ExtendEdges(module_edges, o.edges)
                      /\ files' = IF o.raised THEN files ELSE ExtendFiles(files, o.ret)
                      /\ pc' = IF o.raised THEN "aborted" ELSE "scanning"
    /\ UNCHANGED << inputs, policy, stderr, run, prev_output, call_path, call_results >>

\* return self.output, once rglob is exhausted
ScanReturn ==
    /\ pc = "scanning"
    /\ Todo = { }
    /\ pc' = "done"
    /\ UNCHANGED << inputs, policy, stderr, files, module_edges, walked, run,
                    prev_output, call_path, call_results >>

Next == Construct \/ ScanNext \/ ScanReturn

Spec == Init /\ [][Next]_vars

-----------------------------------------------------------------------------
(* The same tree scanned again, by a new process on the same host with the  *)
(* same arguments: the report of the run before is kept for comparison.     *)

Rerun ==
    /\ pc = "done"
    /\ run < MaxRuns
    /\ prev_output' = Some([files |-> files, module_edges |-> module_edges])
    /\ run' = run + 1
    /\ pc' = "main"
    /\ policy' = None
    /\ stderr' = << >>
    /\ UNCHANGED << inputs, files, module_edges, walked, call_path, call_results >>

InitRepeat ==
    /\ Init
    /\ policy_arg \in { NoPolicyArg,
                        [given |-> TRUE, exists |-> TRUE, loads |-> TRUE, doc |-> PolicyAB] }

NextRepeat == Construct \/ ScanNext \/ ScanReturn \/ Rerun

SpecRepeat == InitRepeat /\ [][NextRepeat]_vars

-----------------------------------------------------------------------------
(* resolve_file_to_module called directly, on a scanner whose policy is     *)
(* loaded: every path of up to MaxPathLen characters against every policy   *)
(* of two modules whose owns_paths are drawn from PatternLists.             *)

PathChars == { "a", "b", "/", BS }

RECURSIVE Strings(_, _)
Strings(chars, n) ==
    IF n = 0 THEN { << >> }
    ELSE Strings(chars, n - 1)
         \cup { Append(str, c) : str \in Strings(chars, n - 1), c \in chars }

CallPaths == Strings(PathChars, MaxPathLen)

PatternLists ==
    { << >>,
      << << "*" >> >>,
      << << "a", "*" >> >>,
      << << "a", "/", "*" >> >>,
      << << "a", BS, "*" >> >>,
      << << "a", "/", "*", "*" >> >>,
      << << "?", "/", "b" >> >>,
      << << "b" >>, << "a", "/", "*" >> >>,
      << << "*", "/", "b" >>, << "a" >> >> }

ModuleIds == { "A", "B", "" }

\* JSON object keys are unique: the two modules have different ids.
CallPolicies ==
    { None, Some(DocNoModules) }
    \cup { Some(Doc(<< Cfg(ids[1], Some(l1), None), Cfg(ids[2], Some(l2), None) >>)) :
            ids \in { p \in ModuleIds \X ModuleIds : p[1] # p[2] },
            l1 \in PatternLists, l2 \in PatternLists }

InitCall ==
    /\ language = "python"
    /\ sep \in Seps
    /\ root_dir \in RootDirs
    /\ policy_arg = NoPolicyArg
    /\ tree = { }
    /\ pc = "call"
    /\ policy \in CallPolicies
    /\ stderr = << >>
    /\ files = << >>
    /\ module_edges = << >>
    /\ walked = << >>
    /\ run = 1
    /\ prev_output = None
    /\ call_path \in CallPaths
    /\ call_results = << >>

\* self.resolve_file_to_module(call_path)
ResolveCall ==
    /\ pc = "call"
    /\ Len(call_results) < MaxCalls
    /\ call_results' = Append(call_results, resolve_file_to_module(policy, call_path, sep))
    /\ UNCHANGED << inputs, pc, policy, stderr, files, module_edges, walked, run,
                    prev_output, call_path >>

NextCall == ResolveCall

SpecCall == InitCall /\ [][NextCall]_vars

-----------------------------------------------------------------------------
(* resolve_import_to_module called directly: every import path of up to    *)
(* MaxPathLen characters against every policy of two modules whose          *)
(* owns_paths are drawn from ImportPatternLists.                            *)

ImportChars == { "a", "b", ".", "/" }

ImportPaths == Strings(ImportChars, MaxPathLen)

ImportPatternLists ==
    { << >>,
      << << "a", "/", "*", "*" >> >>,
      << << "a", "/", "*" >> >>,
      << << "a", "/", "b", "/", "*" >> >>,
      << << "a", "/", "*", "/", "b" >> >>,
      << << "a", "/", "*", "*", "/", "b" >> >>,
      << << "b", "/", "*" >>, << "a", "/", "b" >> >>,
      << << "*" >>, << "b" >> >> }

ImportPolicies ==
    { None, Some(DocEmpty), Some(DocNoModules) }
    \cup { Some(Doc(<< Cfg(ids[1], Some(l1), None), Cfg(ids[2], Some(l2), None) >>)) :
            ids \in { p \in ModuleIds \X ModuleIds : p[1] # p[2] },
            l1 \in ImportPatternLists, l2 \in ImportPatternLists }

InitImport ==
    /\ language = "python"
    /\ sep = "/"
    /\ root_dir \in RootDirs
    /\ policy_arg = NoPolicyArg
    /\ tree = { }
    /\ pc = "call_import"
    /\ policy \in ImportPolicies
    /\ stderr = << >>
    /\ files = << >>
    /\ module_edges = << >>
    /\ walked = << >>
    /\ run = 1
    /\ prev_output = None
    /\ call_path \in ImportPaths
    /\ call_results = << >>

\* self.resolve_import_to_module(call_path, current_file)
ResolveImportCall ==
    /\ pc = "call_import"
    /\ Len(call_results) < MaxCalls
    /\ call_results' = Append(call_results, resolve_import_to_module(policy, call_path))
    /\ UNCHANGED << inputs, pc, policy, stderr, files, module_edges, walked, run,
                    prev_output, call_path >>

NextImport == ResolveImportCall

SpecImport == InitImport /\ [][NextImport]_vars

-----------------------------------------------------------------------------
(* What the claims speak of *)

\* Some owns_paths pattern of some module matches the path (forward slashes
\* on both sides, as the resolver compares them).
RuleMatches(pol, path) ==
    /\ pol # None
    /\ \E i \in DOMAIN pol[1].modules :
          /\ pol[1].modules[i].owns_paths # None
          /\ \E j \in DOMAIN pol[1].modules[i].owns_paths[1] :
                fnmatch(Replace(path, << BS >>, << "/" >>),
                        Replace(pol[1].modules[i].owns_paths[1][j], << BS >>, << "/" >>), sep)

\* The import target resolves to some module of the policy.
TargetModule(target) == ResolveTarget(language, policy, target).val

\* The edges whose from_file is the path, in list order.
EdgesFrom(path) ==
    LET FromPath(e) == e.from_file = path IN SelectSeq(module_edges, FromPath)

\* The place of a reported path in the walk.
WalkIndex(path) == CHOOSE i \in DOMAIN walked : Join(walked[i], sep) = path

MatchingFiles == Matching(tree, language)
Corrupt == { f \in MatchingFiles : f.read # "ok" \/ f.parse # "ok" }

-----------------------------------------------------------------------------
(* C1: no edge of module_edges has its from_module equal to its to_module,  *)
(* whatever the policy, the files and their imports.                        *)
C1_EdgeEndsDistinct ==
    \A i \in DOMAIN module_edges : module_edges[i].from_module # module_edges[i].to_module

\* A report with edges, one of whose files imports a target of its own module.
C1_Witness ==
    /\ pc = "done"
    /\ module_edges # << >>
    /\ \E i \in DOMAIN files :
          /\ files[i].module_scope # None
          /\ \E k \in DOMAIN files[i].imports :
                TargetModule(files[i].imports[k]) = files[i].module_scope

(* C2: in the report, a file has module_scope if and only if a policy was   *)
(* loaded and at least one ownership rule matched the file's path.          *)
C2_ScopeIffRuleMatched ==
    pc = "done" =>
       \A i \in DOMAIN files :
          (files[i].module_scope # None) <=> RuleMatches(policy, files[i].path)

(* C3: resolve_file_to_module returns the first module, in the policy's     *)
(* order, one of whose owns_paths patterns matches the path, none when no   *)
(* pattern of any module matches, and the same on every repeated call.      *)
C3_FirstMatchWins ==
    pc = "call" =>
       LET mods == IF TruthyPolicy(policy) /\ policy[1].has_modules
                   THEN policy[1].modules ELSE << >>
           Owns(i) == \E j \in DOMAIN mods[i].owns_paths[1] :
                         fnmatch(Replace(call_path, << BS >>, << "/" >>),
                                 Replace(mods[i].owns_paths[1][j], << BS >>, << "/" >>), sep)
           owners == { i \in DOMAIN mods : Owns(i) }
       IN  \A k \in DOMAIN call_results :
              /\ ~call_results[k].raised
              /\ owners = { } => call_results[k].val = None
              /\ owners # { } =>
                    \E i \in owners :
                       /\ \A h \in owners : i <= h
                       /\ call_results[k].val = Some(mods[i].id)
              /\ call_results[k] = call_results[1]

\* Two calls made on a path that patterns of both modules match.
C3_Witness ==
    /\ pc = "call"
    /\ Len(call_results) = 2
    /\ policy # None
    /\ Len(policy[1].modules) = 2
    /\ \A i \in 1..2 :
          \E j \in DOMAIN policy[1].modules[i].owns_paths[1] :
             fnmatch(Replace(call_path, << BS >>, << "/" >>),
                     Replace(policy[1].modules[i].owns_paths[1][j], << BS >>, << "/" >>), sep)
    /\ call_results[2].val = Some(policy[1].modules[1].id)

(* C4: for a file of the report whose owner resolved, the number of edges   *)
(* from the file is the number of its import occurrences whose target       *)
(* resolves to a module other than the owner, one edge for each.            *)
C4_EdgePerOccurrence ==
    pc = "done" =>
       \A i \in DOMAIN files :
          LET owner == resolve_file_to_module(policy, files[i].path, sep).val
              Foreign(target) == TargetModule(target) # None /\ TargetModule(target) # owner
          IN  owner # None =>
                 [k \in DOMAIN EdgesFrom(files[i].path) |->
                     EdgesFrom(files[i].path)[k].import_statement]
                 = SelectSeq(files[i].imports, Foreign)

(* C5: with exactly one corrupt or unparsable file (it cannot be read, or   *)
(* it cannot be parsed) among the N files of the adapter's kind, and a      *)
(* policy that is absent or well formed, scan() does not abort and the      *)
(* report has N-1 files, none for the corrupt file, and no edge from it.    *)
C5_CorruptFileSkipped ==
    (Cardinality(Corrupt) = 1 /\ (policy_arg.loads => policy_arg.doc \in WellFormedDocs)) =>
       /\ pc # "aborted"
       /\ pc = "done" =>
             /\ Len(files) = Cardinality(MatchingFiles) - 1
             /\ \A f \in Corrupt :
                   /\ \A i \in DOMAIN files : files[i].path # Join(f.parts, sep)
                   /\ EdgesFrom(Join(f.parts, sep)) = << >>

(* C6: when the policy path given does not exist, cannot be loaded, or      *)
(* holds a malformed document, a warning is written, the scan of a tree of  *)
(* readable, parsable files completes, and the report has every scanned     *)
(* file, no module_scope and no edge.                                       *)
C6_BadPolicyDegrades ==
    (/\ policy_arg.given
     /\ ~policy_arg.exists \/ ~policy_arg.loads \/ policy_arg.doc \in MalformedDocs
     /\ Corrupt = { }) =>
       /\ pc # "aborted"
       /\ pc = "done" =>
             /\ stderr # << >>
             /\ module_edges = << >>
             /\ \A i \in DOMAIN files : files[i].module_scope = None
             /\ { files[i].path : i \in DOMAIN files }
                  = { Join(walked[i], sep) : i \in { k \in DOMAIN walked :
                                                     ~SkippedDir(language, root_dir \o walked[k]) } }

(* C7: two scans of the same tree under the same policy report files and    *)
(* module_edges in the same order, whatever the order the walk yields the   *)
(* files in.                                                                *)
C7_SameOrderEveryRun ==
    (pc = "done" /\ prev_output # None) =>
       /\ prev_output[1].files = files
       /\ prev_output[1].module_edges = module_edges

(* C8: every path of the report, a file's path or an edge's from_file, is   *)
(* relative to the scan root and holds forward slashes only, whatever the   *)
(* host's separator.                                                        *)
C8_PathsForwardSlash ==
    LET Normal(path) == /\ path # << >>
                        /\ path[1] # "/"
                        /\ \A i \in DOMAIN path : path[i] # BS
    IN  pc = "done" =>
           /\ \A i \in DOMAIN files : Normal(files[i].path)
           /\ \A k \in DOMAIN module_edges : Normal(module_edges[k].from_file)

(* C9: an edge exists only relative to a known owner: every edge's          *)
(* from_file is a file of the report whose module_scope is the edge's       *)
(* from_module; a file no ownership rule matches has no edge; with no       *)
(* policy loaded module_edges is empty.                                     *)
C9_EdgesOnlyFromOwnedFiles ==
    pc # "aborted" =>
       /\ \A k \in DOMAIN module_edges :
             /\ module_edges[k].from_module # None
             /\ \E i \in DOMAIN files :
                   /\ files[i].path = module_edges[k].from_file
                   /\ files[i].module_scope = module_edges[k].from_module
       /\ \A i \in DOMAIN files :
             ~RuleMatches(policy, files[i].path) => EdgesFrom(files[i].path) = << >>
       /\ policy = None => module_edges = << >>

\* A report with edges and with a file that no rule matches although one of
\* its imports resolves to a module.
C9_Witness ==
    /\ pc = "done"
    /\ module_edges # << >>
    /\ \E i \in DOMAIN files :
          /\ ~RuleMatches(policy, files[i].path)
          /\ \E k \in DOMAIN files[i].imports :
                TruthyStr(TargetModule(files[i].imports[k]))

\* The edges lie in walk order of their files, which keeps the edges of one
\* file together, and within a file in the order of its imports; files is in
\* walk order.
C10_Ordered ==
    /\ \A i, j \in DOMAIN module_edges :
          i < j => WalkIndex(module_edges[i].from_file) <= WalkIndex(module_edges[j].from_file)
    /\ \A i, j \in DOMAIN files :
          i < j => WalkIndex(files[i].path) < WalkIndex(files[j].path)
    /\ \A w \in DOMAIN walked :
          LET path == Join(walked[w], sep)
              stmts == [k \in DOMAIN EdgesFrom(path) |-> EdgesFrom(path)[k].import_statement]
              Made(target) == \E k \in DOMAIN stmts : stmts[k] = target
          IN  stmts = SelectSeq(FileAt(walked[w]).imports, Made)

(* C10: module_edges and files only grow at the end while scan() runs: no   *)
(* step removes, reorders or changes an entry; and in every state the edges *)
(* lie in walk order of their files and, within one file, in the order of   *)
(* the file's imports, and files is in walk order.                          *)
C10_AppendOnlyInOrder ==
    /\ [][pc = "scanning" =>
            /\ Len(module_edges) <= Len(module_edges')
            /\ SubSeq(module_edges', 1, Len(module_edges)) = module_edges
            /\ Len(files) <= Len(files')
            /\ SubSeq(files', 1, Len(files)) = files]_vars
    /\ []C10_Ordered

\* A report with edges from two files, one of them with two different imports.
C10_Witness ==
    /\ pc = "done"
    /\ \E i, j \in DOMAIN module_edges :
          /\ i < j
          /\ module_edges[i].from_file # module_edges[j].from_file
    /\ \E i, j \in DOMAIN module_edges :
          /\ module_edges[i].from_file = module_edges[j].from_file
          /\ module_edges[i].import_statement # module_edges[j].import_statement

-----------------------------------------------------------------------------
(* Shell-glob matching as the specification words it: * and ? match within  *)
(* one path segment (never a "/"), ** matches across segments.              *)
RECURSIVE ShellGlob(_, _)
ShellGlob(name, pat) ==
    IF pat = << >> THEN name = << >>
    ELSE IF Len(pat) >= 2 /\ pat[1] = "*" /\ pat[2] = "*"
         THEN ShellGlob(name, Tail(Tail(pat)))
              \/ (name # << >> /\ ShellGlob(Tail(name), pat))
    ELSE IF Head(pat) = "*"
         THEN ShellGlob(name, Tail(pat))
              \/ (name # << >> /\ Head(name) # "/" /\ ShellGlob(Tail(name), pat))
    ELSE IF Head(pat) = "?"
         THEN name # << >> /\ Head(name) # "/" /\ ShellGlob(Tail(name), Tail(pat))
    ELSE name # << >> /\ Head(name) = Head(pat) /\ ShellGlob(Tail(name), Tail(pat))

(* C11: ownership patterns are matched with shell-glob semantics: the       *)
(* module resolve_file_to_module returns is the first one a pattern of      *)
(* which matches the path with * confined to one path segment and **        *)
(* matching recursively, and none when no pattern matches so.               *)
C11_StarWithinSegment ==
    pc = "call" =>
       LET mods == IF TruthyPolicy(policy) /\ policy[1].has_modules
                   THEN policy[1].modules ELSE << >>
           Owns(i) == \E j \in DOMAIN mods[i].owns_paths[1] :
                         ShellGlob(Replace(call_path, << BS >>, << "/" >>),
                                   Replace(mods[i].owns_paths[1][j], << BS >>, << "/" >>))
           owners == { i \in DOMAIN mods : Owns(i) }
       IN  \A k \in DOMAIN call_results :
              /\ owners = { } => call_results[k].val = None
              /\ owners # { } =>
                    \E i \in owners :
                       /\ \A h \in owners : i <= h
                       /\ call_results[k].val = Some(mods[i].id)

\* The literal prefix of a pattern as the specification words it: the
\* pattern without a "/**" or "/*" at its end.
EndsWith(s, suffix) ==
    Len(suffix) <= Len(s) /\ SubSeq(s, Len(s) - Len(suffix) + 1, Len(s)) = suffix
StripTrailingWildcard(pattern) ==
    IF EndsWith(pattern, << "/", "*", "*" >>) THEN SubSeq(pattern, 1, Len(pattern) - 3)
    ELSE IF EndsWith(pattern, << "/", "*" >>) THEN SubSeq(pattern, 1, Len(pattern) - 2)
    ELSE pattern

(* C12: resolve_import_to_module replaces every dot of the import path by   *)
(* "/", strips from each owns_paths pattern only a "/**" or "/*" at its     *)
(* end, and returns the first module, in the policy's order, one of whose   *)
(* stripped patterns is a prefix of the rewritten path; it returns none     *)
(* for an empty import string, without a policy, or when no module          *)
(* qualifies.  Stated for a policy that is absent or has its modules.       *)
C12_TrailingWildcardPrefix ==
    (pc = "call_import" /\ (TruthyPolicy(policy) => policy[1].has_modules)) =>
       LET mods == IF TruthyPolicy(policy) /\ call_path # << >>
                   THEN policy[1].modules ELSE << >>
           import_as_path == [i \in DOMAIN call_path |->
                                 IF call_path[i] = "." THEN "/" ELSE call_path[i]]
           Owns(i) == \E j \in DOMAIN mods[i].owns_paths[1] :
                         StartsWith(import_as_path,
                                    StripTrailingWildcard(mods[i].owns_paths[1][j]))
           owners == { i \in DOMAIN mods : Owns(i) }
       IN  \A k \in DOMAIN call_results :
              /\ ~call_results[k].raised
              /\ owners = { } => call_results[k].val = None
              /\ owners # { } =>
                    \E i \in owners :
                       /\ \A h \in owners : i <= h
                       /\ call_results[k].val = Some(mods[i].id)

====
